---------------------------- MODULE Spec2Model ----------------------------
(***************************************************************************)
(* Model of ocypus-L36-control.py: the Ocypus Iota L36 LCD driver.         *)
(*                                                                         *)
(*   - the report codec (_build_display_report),                           *)
(*   - the device selector (_unique_devices, _sorted_candidates),          *)
(*   - OcypusController (open, close, send_temperature, blank_display),    *)
(*   - run_display_loop and main (commands on / off, signal handler).      *)
(*                                                                         *)
(* Python's None is the empty tuple <<>>, a present value x is <<x>>.      *)
(* A bytearray is a sequence of naturals; byte k of the source is element  *)
(* k+1 of the sequence.  Temperatures are counted in half degrees, times   *)
(* in half seconds.                                                        *)
(***************************************************************************)
EXTENDS Integers, Sequences, FiniteSets, TLC

\* ------------------------------------------------------------ constants

REPORT_ID == 7

REPORT_LENGTH == 64

HEADER_MARKER == 255

VENDOR_PAGE_MIN == 65280

\* send_temperature's safety cap, max(0, min(212, value_int))
SEND_CAP == 212

\* _build_display_report's clamp, max(0, min(999, int(value_int)))
CODEC_CAP == 999

\* KEEPALIVE_INTERVAL = 2.0 seconds, in half seconds
KEEPALIVE_INTERVAL == 4

\* DEFAULT_REFRESH_RATE = 1.0 second, in half seconds
DEFAULT_REFRESH_RATE == 2

\* ------------------------------------------------------------ bounds

\* The codec is applied to every integer in -CodecMargin .. 999 + CodecMargin.
CodecMargin == 12

\* The most handles the operating system lets the process hold open at once.
MaxHandles == 2

\* The display loop is followed for this many ticks.
MaxTicks == 6

\* The selector is applied to every enumeration of at most this many entries.
MaxEnum == 3

\* ------------------------------------------------------------ Python values

None == <<>>

Some(x) == <<x>>

IsNone(o) == o = <<>>

\* "x or 0" for an Optional[int]: None and 0 both give 0.
OrZero(o) == IF o = <<>> THEN 0 ELSE o[1]

Max(a, b) == IF a >= b THEN a ELSE b

Min(a, b) == IF a <= b THEN a ELSE b

\* Python 3 round() of the rational num/den (den > 0): to the nearest integer,
\* a tie to the even neighbour.
Round(num, den) ==
    LET q == num \div den
        r == num % den
    IN  IF 2 * r < den THEN q
        ELSE IF 2 * r > den THEN q + 1
        ELSE IF q % 2 = 0 THEN q ELSE q + 1

\* ------------------------------------------------------------ ReportCodec

\* A mutation of the codec: the digits are taken before the value is clamped.
BuildDisplayReportNoClamp(value_int) ==
    [i \in 1..REPORT_LENGTH |->
        CASE i = 1 -> REPORT_ID
          [] i = 2 -> HEADER_MARKER
          [] i = 3 -> HEADER_MARKER
          [] i = 4 -> value_int \div 100
          [] i = 5 -> (value_int % 100) \div 10
          [] i = 6 -> value_int % 10
          [] OTHER -> 0]

\* A mutation of the codec: one padding byte too many, [0] * REPORT_LENGTH.
BuildDisplayReportLong(value_int) ==
    LET v == Max(0, Min(CODEC_CAP, value_int))
    IN  <<REPORT_ID, HEADER_MARKER, HEADER_MARKER,
          v \div 100, (v % 100) \div 10, v % 10>>
        \o [i \in 1..(REPORT_LENGTH - 5) |-> 0]

\* OcypusController._build_display_report
_build_display_report(value_int) ==
    LET v == Max(0, Min(CODEC_CAP, value_int))
        h == v \div 100
        t == (v % 100) \div 10
        o == v % 10
    IN  [i \in 1..REPORT_LENGTH |->
            CASE i = 1 -> REPORT_ID
              [] i = 2 -> HEADER_MARKER
              [] i = 3 -> HEADER_MARKER
              [] i = 4 -> h
              [] i = 5 -> t
              [] i = 6 -> o
              [] OTHER -> 0]

\* blank_display's report: bytearray([REPORT_ID] + [0] * (REPORT_LENGTH - 1))
BlankReport == [i \in 1..REPORT_LENGTH |-> IF i = 1 THEN REPORT_ID ELSE 0]

\* Byte k (0-based, as in the source) of a report.
Byte(report, k) == report[k + 1]

\* The number the three digit bytes of a report spell.
Digits(report) == Byte(report, 3) * 100 + Byte(report, 4) * 10 + Byte(report, 5)

\* ------------------------------------------------------------ DeviceSelector

\* The (interface_number, path) key of _unique_devices.
Key(d) == <<d.interface_number, d.path>>

\* The dict of _unique_devices after its first n iterations, as the sequence of
\* its (key, value) items: a dict keeps a key at the place of its first
\* insertion, and uniq[key] = d replaces the value of a key already there.
RECURSIVE UniqDict(_, _)
UniqDict(devices, n) ==
    IF n = 0 THEN <<>>
    ELSE LET uniq == UniqDict(devices, n - 1)
             d    == devices[n]
             key  == Key(d)
         IN  IF IsNone(key[1]) \/ IsNone(key[2]) THEN uniq
             ELSE IF \E i \in 1..Len(uniq) : uniq[i][1] = key
                  THEN [i \in 1..Len(uniq) |->
                           IF uniq[i][1] = key THEN <<key, d>> ELSE uniq[i]]
                  ELSE Append(uniq, <<key, d>>)

\* A mutation of _unique_devices: the addressable entries, none collapsed.
UniqueDevicesNoCollapse(devices) ==
    SelectSeq(devices, LAMBDA d : ~IsNone(d.interface_number) /\ ~IsNone(d.path))

\* OcypusController._unique_devices
_unique_devices(devices) ==
    LET uniq == UniqDict(devices, Len(devices))
    IN  [i \in 1..Len(uniq) |-> uniq[i][2]]

\* A mutation of score(): the tuple the other way round, (iface, vendor).
ScoreInterfaceFirst(d) ==
    <<OrZero(d.interface_number),
      IF OrZero(d.usage_page) >= VENDOR_PAGE_MIN THEN 1 ELSE 0>>

\* score() of _sorted_candidates: the tuple (vendor, iface).
score(d) ==
    LET up     == OrZero(d.usage_page)
        iface  == OrZero(d.interface_number)
        vendor == IF up >= VENDOR_PAGE_MIN THEN 1 ELSE 0
    IN  <<vendor, iface>>

\* Python's tuple order on two scores: a < b.
ScoreLess(a, b) == a[1] < b[1] \/ (a[1] = b[1] /\ a[2] < b[2])

\* One step of a stable descending sort: d goes before the first element of
\* lower score, after every element of equal or higher score.
InsertByScore(sorted, d) ==
    LET lower == {i \in 1..Len(sorted) : ScoreLess(score(sorted[i]), score(d))}
        at    == IF lower = {} THEN Len(sorted) + 1
                 ELSE CHOOSE i \in lower : \A j \in lower : i <= j
    IN  [i \in 1..(Len(sorted) + 1) |->
            IF i < at THEN sorted[i]
            ELSE IF i = at THEN d
            ELSE sorted[i - 1]]

RECURSIVE SortPrefix(_, _)
SortPrefix(devices, n) ==
    IF n = 0 THEN <<>>
    ELSE InsertByScore(SortPrefix(devices, n - 1), devices[n])

\* OcypusController._sorted_candidates: sorted(devices, key=score, reverse=True),
\* which keeps the input order of elements of equal score.
_sorted_candidates(devices) == SortPrefix(devices, Len(devices))

\* ------------------------------------------------------------ the environment

DeviceInfo(iface, p, up, us) ==
    [interface_number |-> iface, path |-> p, usage_page |-> up, usage |-> us]

\* The keyboard-like interface: generic usage page, low interface number.
DKbd == DeviceInfo(Some(0), Some("hidraw0"), Some(1), Some(6))

\* The vendor interface.
DVendor == DeviceInfo(Some(1), Some("hidraw1"), Some(VENDOR_PAGE_MIN), Some(1))

\* The vendor interface enumerated a second time, with another usage page.
DVendorDup == DeviceInfo(Some(1), Some("hidraw1"), Some(1), Some(2))

\* An interface of a higher number whose usage page is not reported.
DHigh == DeviceInfo(Some(2), Some("hidraw2"), None, None)

\* An entry that cannot be addressed: no path.
DNoPath == DeviceInfo(Some(3), None, Some(VENDOR_PAGE_MIN), Some(1))

\* An entry that cannot be addressed: no interface number.
DNoIface == DeviceInfo(None, Some("hidraw1"), Some(VENDOR_PAGE_MIN), Some(1))

\* A second vendor interface, of a higher number and another vendor page.
DVendorHigh == DeviceInfo(Some(3), Some("hidraw3"), Some(VENDOR_PAGE_MIN + 1), Some(1))

\* The path of the vendor interface under another interface number.
DVendorTwo == DeviceInfo(Some(2), Some("hidraw1"), Some(VENDOR_PAGE_MIN), Some(1))

\* An interface whose number hidapi does not know: -1.
DUnknown == DeviceInfo(Some(-1), Some("hidraw4"), Some(1), Some(1))

\* The entries hid.enumerate may list when the selector alone is checked.
DevUniverse ==
    { DKbd, DVendor, DVendorDup, DHigh, DNoPath, DNoIface, DVendorHigh,
      DVendorTwo, DUnknown }

\* Every enumeration of at most MaxEnum entries.
EnumLists == UNION { [1..k -> DevUniverse] : k \in 0..MaxEnum }

\* What hid.enumerate(VID, PID) may return to the controller under test.
EnumChoices ==
    { <<>>,
      <<DNoPath>>,
      <<DVendor>>,
      <<DKbd, DVendor>>,
      <<DVendor, DKbd, DVendorDup>>,
      <<DKbd, DHigh, DVendor>> }

\* What hid.enumerate(VID, PID) may return to the command-line program.
EnumMain == { <<>>, <<DKbd, DVendor>> }

\* device.write(report): the count it returns, or an exception.
WriteResults ==
    { [raised |-> FALSE, n |-> REPORT_LENGTH],
      [raised |-> FALSE, n |-> 0],
      [raised |-> FALSE, n |-> -1],
      [raised |-> TRUE,  n |-> 0] }

\* One candidate's fate in open(): whether open_path succeeds, and what the
\* probe write then returns.
ProbeOutcomes ==
    { [opens |-> FALSE, wr |-> [raised |-> TRUE, n |-> 0]] }
    \cup { [opens |-> TRUE, wr |-> w] : w \in {r \in WriteResults : r.n >= 0} }

\* temp_celsius values handed to send_temperature, in half degrees.
TempChoices == { -36, -2, 0, 5, 90, 200, 201, 2000 }

\* Sensor readings of the display loop, in half degrees (45.0 and 125.5).
LoopTemps == { 90, 251 }

UnitChoices == { "c", "f" }

\* --rate, in half seconds: argparse's type=float takes any float, also a
\* negative one.
RateChoices == { -DEFAULT_REFRESH_RATE, DEFAULT_REFRESH_RATE }

\* time.sleep(s) returns after at least s; by how many half seconds more.
SleepOvershoot == { 0, 1 }

VARIABLES
    mode,               \* "api": calls made on a controller; "on" / "off": main
    pc,                 \* where the program is
    device,             \* self.device: a handle id, 0 for None
    interface_number,   \* self.interface_number
    path,               \* self.path
    hidOpen,            \* the HID handles open in the operating system
    enumerated,         \* what hid.enumerate returns
    candidates,         \* open(): candidates
    idx,                \* open(): the place of device_info in candidates
    dev,                \* open(): the local device, a handle id, 0 for none
    oracle,             \* open(): each candidate's fate, fixed by the hardware
    attempts,           \* open(): places of the candidates tried so far
    hidAtStart,         \* open(): hidOpen as the call began
    opWrites,           \* device.write calls of the operation in progress or last done
    lastOp,             \* the last call completed: its name, arguments, result
    unit,               \* args.unit
    refresh_rate,       \* args.rate
    now,                \* time.time(), from the start of the loop
    last_keepalive,     \* run_display_loop: last_keepalive
    ticks,              \* loop iterations begun
    lastTick,           \* what the last iteration did
    allUnmatched,       \* every iteration so far found no sensor
    matchedSince,       \* when the present run of matched ticks began, or None
    kaLog,              \* the keepalive writes: iteration (0-based) and time of each
    sigPending,         \* a signal was delivered, its handler has not run yet
    signalled,          \* a signal was delivered in this run
    exc,                \* the exception propagating, "none" if none
    loopExit,           \* why run_display_loop ended, "none" if it did not
    exitStatus,         \* the process's exit status, -1 while it runs
    codecIn,            \* the codec under test: its argument
    codecOut,           \* the codec under test: its result, <<>> before the call
    selOut              \* the selector under test: the list it returned

ctrlVars == <<device, interface_number, path, hidOpen>>

openVars == <<candidates, idx, dev, oracle, attempts, hidAtStart>>

loopVars ==
    <<now, last_keepalive, ticks, lastTick, allUnmatched, matchedSince, kaLog>>

procVars == <<sigPending, signalled, exc, loopExit, exitStatus>>

argVars == <<mode, enumerated, unit, refresh_rate>>

codecVars == <<codecIn, codecOut, selOut>>

vars == <<pc, ctrlVars, openVars, opWrites, lastOp, loopVars, procVars, argVars,
          codecVars>>

\* ------------------------------------------------------------ helpers

NoOp == [op |-> "none", ret |-> FALSE, msg |-> "", temp |-> 0, unit |-> "c"]

Result(o, r, m) == [op |-> o, ret |-> r, msg |-> m, temp |-> 0, unit |-> "c"]

\* The open handle of id h.
HandleOf(h) == CHOOSE r \in hidOpen : r.hid = h

\* The id of a handle hid.device() / open_path creates: the least one not in use.
NewHid ==
    CHOOSE n \in 1..(Cardinality(hidOpen) + 1) :
        /\ \A r \in hidOpen : r.hid # n
        /\ \A m \in 1..(n - 1) : \E r \in hidOpen : r.hid = m

\* A mutation of the check of a write: "written < 0" for "written <= 0".
WriteOkNonNegative(w) == ~w.raised /\ w.n >= 0

\* A mutation of the check of a write: the count written is not looked at.
WriteOkIgnoresCount(w) == ~w.raised

\* The test both open() and the senders make of a write: no exception, and
\* not "written <= 0".
WriteOk(w) == ~w.raised /\ w.n > 0

\* A mutation of the cleanup of a failed candidate: the handle is left open.
ReleasedLeak(open, h) == open

\* device.close() on handle h (a handle never opened: h = 0): the handles
\* open afterwards.  hid_close returns nothing; the handle is released
\* whether or not the Python call raises.
Released(open, h) == {r \in open : r.hid # h}

\* A mutation of send_temperature: the Fahrenheit conversion without the cap.
SendValueNoCap(th, u) ==
    IF u = "f" THEN Max(0, Round(9 * th + 320, 10)) ELSE Max(0, Round(th, 2))

\* send_temperature, lines 183-190: value_int for temp_celsius = th / 2.
\* th/2 * 9/5 + 32 = (9 th + 320) / 10.  The floats of the source are exact
\* on halves where it matters: a tie x.5 is computed exactly, and everything
\* else is further from a tie than any rounding error.
SendValue(th, u) ==
    LET value_int == IF u = "f" THEN Round(9 * th + 320, 10) ELSE Round(th, 2)
    IN  Max(0, Min(SEND_CAP, value_int))

WriteRec(h, report, w) ==
    [hid |-> h, path |-> HandleOf(h).path, report |-> report, res |-> w]

\* ------------------------------------------------------------ OcypusController

\* Where control goes when open() returns: to the caller of the method, or
\* past __enter__ into the body of main's with statement.
AfterOpen == IF mode = "api" THEN "idle" ELSE "body"

CanCallOpen ==
    IF mode = "api" THEN pc = "idle" /\ Cardinality(hidOpen) < MaxHandles
    ELSE pc = "start"

\* open(), lines 110-117: enumerate, the empty check, the candidates.
OpenBegin ==
    /\ CanCallOpen
    /\ ~sigPending
    /\ opWrites' = <<>>
    /\ attempts' = <<>>
    /\ hidAtStart' = hidOpen
    /\ dev' = 0
    /\ IF enumerated = <<>>
       THEN /\ candidates' = <<>>
            /\ oracle' = <<>>
            /\ idx' = 0
            /\ lastOp' = Result("open", FALSE, "not_found")
            /\ pc' = AfterOpen
       ELSE LET c == _sorted_candidates(_unique_devices(enumerated))
            IN  /\ candidates' = c
                /\ \E o \in [1..Len(c) -> ProbeOutcomes] : oracle' = o
                /\ idx' = 1
                /\ lastOp' = NoOp
                /\ pc' = "open_path"
    /\ UNCHANGED <<ctrlVars, loopVars, procVars, argVars, codecVars>>

\* open(), lines 118-127: the next candidate, hid.device() and open_path.
OpenPath ==
    /\ pc = "open_path"
    /\ idx <= Len(candidates)
    /\ ~sigPending
    /\ LET d == candidates[idx]
       IN  IF IsNone(d.interface_number) \/ IsNone(d.path)
           THEN /\ idx' = idx + 1
                /\ UNCHANGED <<pc, dev, hidOpen, attempts>>
           ELSE IF oracle[idx].opens
           THEN /\ dev' = NewHid
                /\ hidOpen' = hidOpen \cup {[hid |-> NewHid, path |-> d.path[1]]}
                /\ attempts' = Append(attempts, idx)
                /\ pc' = "open_probe"
                /\ UNCHANGED idx
           ELSE \* open_path raised: device.close() of the handler closes nothing
                /\ hidOpen' = Released(hidOpen, 0)
                /\ attempts' = Append(attempts, idx)
                /\ idx' = idx + 1
                /\ UNCHANGED <<pc, dev>>
    /\ UNCHANGED <<device, interface_number, path, candidates, oracle, hidAtStart,
                   opWrites, lastOp, loopVars, procVars, argVars, codecVars>>

\* open(), lines 129-152: the probe write, then the binding or the cleanup.
OpenProbe ==
    /\ pc = "open_probe"
    /\ ~sigPending
    /\ LET d == candidates[idx]
           w == oracle[idx].wr
       IN  /\ opWrites' = Append(opWrites, WriteRec(dev, _build_display_report(0), w))
           /\ IF WriteOk(w)
              THEN /\ device' = dev
                   /\ interface_number' = d.interface_number
                   /\ path' = d.path
                   \* the device object self.device held loses its last
                   \* reference: its handle is closed if the binding has a
                   \* finalizer, and stays open if it has none
                   /\ \E finalized \in BOOLEAN :
                        hidOpen' = IF device # 0 /\ finalized
                                   THEN Released(hidOpen, device)
                                   ELSE hidOpen
                   /\ lastOp' = Result("open", TRUE, "connected")
                   /\ pc' = AfterOpen
                   /\ UNCHANGED idx
              ELSE /\ hidOpen' = Released(hidOpen, dev)
                   /\ idx' = idx + 1
                   /\ pc' = "open_path"
                   /\ UNCHANGED <<device, interface_number, path, lastOp>>
           /\ dev' = 0
    /\ UNCHANGED <<candidates, oracle, attempts, hidAtStart, loopVars, procVars,
                   argVars, codecVars>>

\* open(), lines 154-157: every candidate failed.
OpenExhausted ==
    /\ pc = "open_path"
    /\ idx > Len(candidates)
    /\ ~sigPending
    /\ lastOp' = Result("open", FALSE, "no_working")
    /\ pc' = AfterOpen
    /\ UNCHANGED <<ctrlVars, openVars, opWrites, loopVars, procVars, argVars,
                   codecVars>>

\* A mutation of close(): the finally clause forgets self.path.
CloseEffectKeepsPath ==
    IF device # 0
    THEN /\ hidOpen' = Released(hidOpen, device)
         /\ device' = 0
         /\ interface_number' = None
         /\ UNCHANGED path
    ELSE UNCHANGED ctrlVars

\* A mutation of close(): the finally clause forgets self.interface_number.
CloseEffectKeepsInterface ==
    IF device # 0
    THEN /\ hidOpen' = Released(hidOpen, device)
         /\ device' = 0
         /\ path' = None
         /\ UNCHANGED interface_number
    ELSE UNCHANGED ctrlVars

\* close(), lines 161-169, on the controller's fields.
CloseEffect ==
    IF device # 0
    THEN /\ hidOpen' = Released(hidOpen, device)
         /\ device' = 0
         /\ interface_number' = None
         /\ path' = None
    ELSE UNCHANGED ctrlVars

\* A mutation of send_temperature: no "if not self.device" guard; the report
\* is built and the call answers as if the write had been made.
SendEffectNoGuard(th, u, w) ==
    /\ opWrites' = <<[hid |-> device, path |-> "", res |-> w,
                      report |-> _build_display_report(SendValue(th, u))]>>
    /\ lastOp' = [op |-> "send", ret |-> WriteOk(w),
                  msg |-> IF WriteOk(w) THEN "ok" ELSE "error",
                  temp |-> th, unit |-> u]

\* send_temperature(th / 2, u) when device.write answers w.
SendEffect(th, u, w) ==
    IF device = 0
    THEN /\ opWrites' = <<>>
         /\ lastOp' = [op |-> "send", ret |-> FALSE, msg |-> "not_connected",
                       temp |-> th, unit |-> u]
    ELSE /\ opWrites' = <<WriteRec(device, _build_display_report(SendValue(th, u)), w)>>
         /\ lastOp' = [op |-> "send", ret |-> WriteOk(w),
                       msg |-> IF WriteOk(w) THEN "ok" ELSE "error",
                       temp |-> th, unit |-> u]

\* blank_display() when device.write answers w.
BlankEffect(w) ==
    IF device = 0
    THEN /\ opWrites' = <<>>
         /\ lastOp' = Result("blank", FALSE, "not_connected")
    ELSE /\ opWrites' = <<WriteRec(device, BlankReport, w)>>
         /\ lastOp' = Result("blank", WriteOk(w), IF WriteOk(w) THEN "ok" ELSE "error")

\* The locals of open() are gone once another call begins.
ForgetOpen ==
    /\ candidates' = <<>>
    /\ oracle' = <<>>
    /\ attempts' = <<>>
    /\ hidAtStart' = {}
    /\ idx' = 0
    /\ dev' = 0

\* ------------------------------------------------------------ calls on a controller

\* controller.close()
close ==
    /\ mode = "api"
    /\ pc = "idle"
    /\ CloseEffect
    /\ \E raises \in BOOLEAN :
         lastOp' = Result("close", TRUE,
                          IF device = 0 THEN ""
                          ELSE IF raises THEN "close_error" ELSE "closed")
    /\ opWrites' = <<>>
    /\ ForgetOpen
    /\ UNCHANGED <<pc, loopVars, procVars, argVars, codecVars>>

\* controller.send_temperature(temp_celsius, unit)
send_temperature ==
    /\ mode = "api"
    /\ pc = "idle"
    /\ \E th \in TempChoices, u \in UnitChoices, w \in WriteResults :
         SendEffect(th, u, w)
    /\ ForgetOpen
    /\ UNCHANGED <<pc, ctrlVars, loopVars, procVars, argVars, codecVars>>

\* controller.blank_display()
blank_display ==
    /\ mode = "api"
    /\ pc = "idle"
    /\ \E w \in WriteResults : BlankEffect(w)
    /\ ForgetOpen
    /\ UNCHANGED <<pc, ctrlVars, loopVars, procVars, argVars, codecVars>>

\* OcypusController(), lines 44-47, and the process around it before main runs.
InitCommon ==
    /\ device = 0
    /\ interface_number = None
    /\ path = None
    /\ hidOpen = {}
    /\ candidates = <<>>
    /\ idx = 0
    /\ dev = 0
    /\ oracle = <<>>
    /\ attempts = <<>>
    /\ hidAtStart = {}
    /\ opWrites = <<>>
    /\ lastOp = NoOp
    /\ now = 0
    /\ last_keepalive = 0
    /\ ticks = 0
    /\ lastTick = "none"
    /\ allUnmatched = TRUE
    /\ matchedSince = None
    /\ kaLog = <<>>
    /\ sigPending = FALSE
    /\ signalled = FALSE
    /\ exc = "none"
    /\ loopExit = "none"
    /\ exitStatus = -1
    /\ selOut = <<>>

\* A controller, and any sequence of calls on it.
Init ==
    /\ InitCommon
    /\ mode = "api"
    /\ pc = "idle"
    /\ enumerated \in EnumChoices
    /\ unit = "c"
    /\ refresh_rate = DEFAULT_REFRESH_RATE
    /\ codecIn = 0
    /\ codecOut = <<>>

Next ==
    \/ OpenBegin
    \/ OpenPath
    \/ OpenProbe
    \/ OpenExhausted
    \/ close
    \/ send_temperature
    \/ blank_display

Spec == Init /\ [][Next]_vars

\* ------------------------------------------------------------ run_display_loop

\* A mutation of the keepalive test: a keepalive on every unmatched tick.
KeepaliveDueAlways(current_time, last) == TRUE

\* Line 288: current_time - last_keepalive >= KEEPALIVE_INTERVAL.
KeepaliveDue(current_time, last) == current_time - last >= KEEPALIVE_INTERVAL

\* time.sleep(secs) raises ValueError on a negative length.
SleepRaises(secs) == secs < 0

\* Lines 264-269: the loop begins; last_keepalive = time.time().
StartLoop ==
    /\ pc = "body"
    /\ mode = "on"
    /\ device # 0
    /\ ~sigPending
    /\ last_keepalive' = now
    /\ pc' = "tick"
    /\ opWrites' = <<>>
    /\ lastOp' = NoOp
    /\ ForgetOpen
    /\ UNCHANGED <<ctrlVars, now, ticks, lastTick, allUnmatched, matchedSince,
                   kaLog, procVars, argVars, codecVars>>

\* A mutation of the matched tick: it restarts the keepalive timer.
TickMatchedResetsTimer ==
    /\ pc = "tick"
    /\ ticks < MaxTicks
    /\ ~sigPending
    /\ \E th \in LoopTemps, w \in WriteResults : SendEffect(th, unit, w)
    /\ ticks' = ticks + 1
    /\ lastTick' = "matched"
    /\ allUnmatched' = FALSE
    /\ matchedSince' = IF lastTick = "matched" THEN matchedSince ELSE Some(now)
    /\ last_keepalive' = now
    /\ pc' = "sleep"
    /\ UNCHANGED <<ctrlVars, openVars, now, kaLog, procVars, argVars, codecVars>>

\* Lines 273-284: a sensor matches; its reading is sent.
TickMatched ==
    /\ pc = "tick"
    /\ ticks < MaxTicks
    /\ ~sigPending
    /\ \E th \in LoopTemps, w \in WriteResults : SendEffect(th, unit, w)
    /\ ticks' = ticks + 1
    /\ lastTick' = "matched"
    /\ allUnmatched' = FALSE
    /\ matchedSince' = IF lastTick = "matched" THEN matchedSince ELSE Some(now)
    /\ pc' = "sleep"
    /\ UNCHANGED <<ctrlVars, openVars, now, last_keepalive, kaLog, procVars,
                   argVars, codecVars>>

\* Lines 285-290: no sensor matches (none at all, a failed query, no match).
TickUnmatched ==
    /\ pc = "tick"
    /\ ticks < MaxTicks
    /\ ~sigPending
    /\ LET current_time == now
       IN  IF KeepaliveDue(current_time, last_keepalive)
           THEN /\ \E w \in WriteResults : SendEffect(0, unit, w)
                /\ last_keepalive' = current_time
                /\ kaLog' = Append(kaLog, [tick |-> ticks, at |-> current_time])
                /\ lastTick' = "keepalive"
           ELSE /\ opWrites' = <<>>
                /\ lastOp' = NoOp
                /\ lastTick' = "idle"
                /\ UNCHANGED <<last_keepalive, kaLog>>
    /\ ticks' = ticks + 1
    /\ matchedSince' = None
    /\ pc' = "sleep"
    /\ UNCHANGED <<ctrlVars, openVars, now, allUnmatched, procVars, argVars,
                   codecVars>>

\* Lines 297-298: the iteration raises an Exception before it sends.
TickRaises ==
    /\ pc = "tick"
    /\ ticks < MaxTicks
    /\ ~sigPending
    /\ opWrites' = <<>>
    /\ lastOp' = NoOp
    /\ ticks' = ticks + 1
    /\ lastTick' = "raised"
    /\ allUnmatched' = FALSE
    /\ matchedSince' = None
    /\ pc' = "except_sleep"
    /\ UNCHANGED <<ctrlVars, openVars, now, last_keepalive, kaLog, procVars,
                   argVars, codecVars>>

\* Line 292: time.sleep(refresh_rate) inside the try; its ValueError is an
\* Exception like any other and is caught at line 297.
LoopSleep ==
    /\ pc = "sleep"
    /\ ~sigPending
    /\ IF SleepRaises(refresh_rate)
       THEN /\ pc' = "except_sleep"
            /\ UNCHANGED now
       ELSE /\ \E over \in SleepOvershoot : now' = now + refresh_rate + over
            /\ pc' = "tick"
    /\ UNCHANGED <<ctrlVars, openVars, opWrites, lastOp, last_keepalive, ticks,
                   lastTick, allUnmatched, matchedSince, kaLog, procVars,
                   argVars, codecVars>>

\* Line 299: time.sleep(refresh_rate) inside the handler; nothing catches what
\* it raises, which leaves the loop and the with statement.
ExceptSleep ==
    /\ pc = "except_sleep"
    /\ ~sigPending
    /\ IF SleepRaises(refresh_rate)
       THEN /\ exc' = "ValueError"
            /\ loopExit' = "exception"
            /\ pc' = "exit"
            /\ UNCHANGED now
       ELSE /\ \E over \in SleepOvershoot : now' = now + refresh_rate + over
            /\ pc' = "tick"
            /\ UNCHANGED <<exc, loopExit>>
    /\ UNCHANGED <<ctrlVars, openVars, opWrites, lastOp, last_keepalive, ticks,
                   lastTick, allUnmatched, matchedSince, kaLog, sigPending,
                   signalled,
                   exitStatus, argVars, codecVars>>

\* ------------------------------------------------------------ main

\* A mutation of the exit status: the handler's SystemExit counts as a failure.
ExitStatusOfFailing(e) == IF e = "none" THEN 0 ELSE 1

\* The status the interpreter ends with: 0 when main returns and for the
\* handler's sys.exit(0), 1 for an exception nothing caught.
ExitStatusOf(e) == IF e = "ValueError" THEN 1 ELSE 0

\* Lines 414-418: the off command with a device: blank_display().
MainOff ==
    /\ pc = "body"
    /\ mode = "off"
    /\ device # 0
    /\ ~sigPending
    /\ \E w \in WriteResults : BlankEffect(w)
    /\ ForgetOpen
    /\ pc' = "exit"
    /\ UNCHANGED <<ctrlVars, loopVars, procVars, argVars, codecVars>>

\* Lines 411 and 416: "if controller.device" is false, the body is skipped.
MainSkip ==
    /\ pc = "body"
    /\ device = 0
    /\ ~sigPending
    /\ pc' = "exit"
    /\ UNCHANGED <<ctrlVars, openVars, opWrites, lastOp, loopVars, procVars,
                   argVars, codecVars>>

\* __exit__, lines 54-56: close(); then the process ends.
MainExit ==
    /\ pc = "exit"
    /\ ~sigPending
    /\ CloseEffect
    /\ pc' = "done"
    /\ exitStatus' = ExitStatusOf(exc)
    /\ UNCHANGED <<openVars, opWrites, lastOp, loopVars, sigPending, signalled,
                   exc, loopExit, argVars, codecVars>>

\* SIGINT or SIGTERM is delivered to the process (once in a run).
SignalArrives ==
    /\ mode \in {"on", "off"}
    /\ pc # "done"
    /\ ~signalled
    /\ sigPending' = TRUE
    /\ signalled' = TRUE
    /\ UNCHANGED <<pc, ctrlVars, openVars, opWrites, lastOp, loopVars, exc,
                   loopExit, exitStatus, argVars, codecVars>>

\* signal_handler, lines 387-389: sys.exit(0) raises SystemExit where the
\* program is.  No except clause of the program catches it.  Raised in the
\* body of the with statement it runs __exit__; raised inside __enter__ it
\* does not; raised as __exit__ begins, close() has run or has not.
signal_handler ==
    /\ sigPending
    /\ pc # "done"
    /\ sigPending' = FALSE
    /\ exc' = "SystemExit"
    /\ loopExit' = IF pc \in {"tick", "sleep", "except_sleep"} THEN "signal"
                   ELSE loopExit
    /\ IF pc \in {"body", "tick", "sleep", "except_sleep"}
       THEN /\ pc' = "exit"
            /\ UNCHANGED <<ctrlVars, exitStatus>>
       ELSE IF pc = "exit"
       THEN /\ pc' = "done"
            /\ exitStatus' = ExitStatusOf("SystemExit")
            /\ \E closed \in BOOLEAN :
                 IF closed THEN CloseEffect ELSE UNCHANGED ctrlVars
       ELSE /\ pc' = "done"
            /\ exitStatus' = ExitStatusOf("SystemExit")
            /\ UNCHANGED ctrlVars
    /\ UNCHANGED <<openVars, opWrites, lastOp, loopVars, signalled, argVars,
                   codecVars>>

\* The command-line program: the on and the off command.
InitMain ==
    /\ InitCommon
    /\ mode \in {"on", "off"}
    /\ pc = "start"
    /\ enumerated \in EnumMain
    /\ unit \in UnitChoices
    /\ refresh_rate \in RateChoices
    /\ codecIn = 0
    /\ codecOut = <<>>

\* What the program does; the signal's arrival is the environment's.
NextProgram ==
    \/ OpenBegin
    \/ OpenPath
    \/ OpenProbe
    \/ OpenExhausted
    \/ StartLoop
    \/ TickMatched
    \/ TickUnmatched
    \/ TickRaises
    \/ LoopSleep
    \/ ExceptSleep
    \/ MainOff
    \/ MainSkip
    \/ MainExit
    \/ signal_handler

NextMain == NextProgram \/ SignalArrives

SpecMain == InitMain /\ [][NextMain]_vars

\* The interpreter keeps running the program and runs a pending handler.
LiveMain == SpecMain /\ WF_vars(NextProgram)

\* ------------------------------------------------------------ the codec alone

\* _build_display_report(codecIn) is called.
Encode ==
    /\ mode = "codec"
    /\ codecOut = <<>>
    /\ codecOut' = _build_display_report(codecIn)
    /\ UNCHANGED <<pc, ctrlVars, openVars, opWrites, lastOp, loopVars, procVars,
                   argVars, codecIn, selOut>>

InitCodec ==
    /\ InitCommon
    /\ mode = "codec"
    /\ pc = "idle"
    /\ enumerated = <<>>
    /\ unit = "c"
    /\ refresh_rate = DEFAULT_REFRESH_RATE
    /\ codecIn \in (0 - CodecMargin)..(CODEC_CAP + CodecMargin)
    /\ codecOut = <<>>

NextCodec == Encode

SpecCodec == InitCodec /\ [][NextCodec]_vars

\* ------------------------------------------------------------ the selector alone

\* _unique_devices(enumerated) is called.
Unique ==
    /\ mode = "select"
    /\ pc = "idle"
    /\ selOut' = _unique_devices(enumerated)
    /\ pc' = "unique"
    /\ UNCHANGED <<ctrlVars, openVars, opWrites, lastOp, loopVars, procVars,
                   argVars, codecIn, codecOut>>

\* _sorted_candidates(enumerated) is called.
Sorted ==
    /\ mode = "select"
    /\ pc = "idle"
    /\ selOut' = _sorted_candidates(enumerated)
    /\ pc' = "sorted"
    /\ UNCHANGED <<ctrlVars, openVars, opWrites, lastOp, loopVars, procVars,
                   argVars, codecIn, codecOut>>

InitSelect ==
    /\ InitCommon
    /\ mode = "select"
    /\ pc = "idle"
    /\ enumerated \in EnumLists
    /\ unit = "c"
    /\ refresh_rate = DEFAULT_REFRESH_RATE
    /\ codecIn = 0
    /\ codecOut = <<>>

NextSelect == Unique \/ Sorted

SpecSelect == InitSelect /\ [][NextSelect]_vars

\* ============================================================ the claims

\* What a claim calls clamp(v, lo, hi).
Clamp(v, lo, hi) == IF v < lo THEN lo ELSE IF v > hi THEN hi ELSE v

\* C1: for every integer v, _build_display_report(v) is a 64-byte buffer with
\* byte 0 = 0x07, bytes 1 and 2 = 0xFF, bytes 6..63 zero, each of bytes 3, 4, 5
\* in 0..9 and byte3*100 + byte4*10 + byte5 = clamp(v, 0, 999); so v < 0 gives
\* the buffer of 0 and v > 999 the buffer of 999.
C1_EncodeLayout ==
    codecOut # <<>> =>
        /\ Len(codecOut) = 64
        /\ Byte(codecOut, 0) = 7
        /\ Byte(codecOut, 1) = 255
        /\ Byte(codecOut, 2) = 255
        /\ \A k \in 6..63 : Byte(codecOut, k) = 0
        /\ \A k \in 3..5 : Byte(codecOut, k) \in 0..9
        /\ Digits(codecOut) = Clamp(codecIn, 0, 999)
        /\ (codecIn < 0 => codecOut = _build_display_report(0))
        /\ (codecIn > 999 => codecOut = _build_display_report(999))

C1_Witness ==
    /\ codecIn = 1005
    /\ codecOut # <<>>
    /\ Digits(codecOut) = 999

\* The nearest integer to num/5, for the Fahrenheit value (9c + 160)/5 of an
\* integer c, which is never a tie.
NearestFifth(num) == (2 * num + 5) \div 10

\* C2: for an integer Celsius input c and unit c or f, a successful
\* send_temperature(c, unit) writes exactly one report, whose digits spell
\* clamp(round(conv(c)), 0, 212), conv(c) = c*9/5 + 32 for f and c otherwise:
\* 0 C in f gives 032, 100 C in f gives 212, 45 C gives 045 in c and 113 in f;
\* and no report send writes spells a value above 212 or below 0.
C2_SendDigits ==
    lastOp.op = "send" =>
        /\ \A i \in 1..Len(opWrites) : Digits(opWrites[i].report) \in 0..212
        /\ (lastOp.ret /\ lastOp.temp % 2 = 0) =>
              LET c     == lastOp.temp \div 2
                  shown == Digits(opWrites[1].report)
              IN  /\ Len(opWrites) = 1
                  /\ lastOp.unit = "f" =>
                        shown = Clamp(NearestFifth(9 * c + 160), 0, 212)
                  /\ lastOp.unit # "f" => shown = Clamp(c, 0, 212)
                  /\ (c = 0 /\ lastOp.unit = "f") => shown = 32
                  /\ (c = 100 /\ lastOp.unit = "f") => shown = 212
                  /\ (c = 45 /\ lastOp.unit = "c") => shown = 45
                  /\ (c = 45 /\ lastOp.unit = "f") => shown = 113

C2_Witness ==
    /\ lastOp.op = "send"
    /\ lastOp.ret
    /\ lastOp.temp = 90
    /\ lastOp.unit = "f"
    /\ Len(opWrites) = 1
    /\ Digits(opWrites[1].report) = 113

\* A candidate's open_path succeeds and its probe write returns a count > 0.
Validates(i) == oracle[i].opens /\ ~oracle[i].wr.raised /\ oracle[i].wr.n > 0

\* open() has returned and nothing was called since.
OpenReturned == lastOp.op = "open" /\ pc = "idle"

\* C3: if the open or the validating write of the higher-ranked candidates
\* fails and a later candidate's open and write succeed, open() returns success
\* bound to that later candidate; and when open() returns, successfully or not,
\* no handle opened for a failed candidate is still open.
C3_Fallback ==
    OpenReturned =>
        /\ \A j \in 2..Len(candidates) :
              (Validates(j) /\ \A i \in 1..(j - 1) : ~Validates(i)) =>
                  /\ lastOp.ret
                  /\ device # 0
                  /\ interface_number = candidates[j].interface_number
                  /\ path = candidates[j].path
                  /\ HandleOf(device).path = candidates[j].path[1]
        /\ dev = 0
        /\ \A h \in hidOpen \ hidAtStart : lastOp.ret /\ h.hid = device

C3_Witness ==
    /\ OpenReturned
    /\ lastOp.ret
    /\ Len(candidates) >= 2
    /\ oracle[1].opens
    /\ ~Validates(1)
    /\ Validates(2)
    /\ path = candidates[2].path

\* C4: with a poll interval of 1 s and KEEPALIVE_INTERVAL 2 s, in a run of
\* unmatched ticks a keepalive is written only when 2 s or more have passed
\* since the last keepalive (or the loop's start), not on every tick: 5
\* unmatched ticks from the start give exactly 2 keepalive writes, at ticks 2
\* and 4, and two consecutive keepalive writes are at least 2 s apart.
C4_KeepaliveTiming ==
    (mode = "on" /\ refresh_rate = 2) =>
        /\ (allUnmatched /\ ticks = 5) =>
              /\ Len(kaLog) = 2
              /\ kaLog[1].tick = 2
              /\ kaLog[2].tick = 4
        /\ (allUnmatched /\ ticks >= 2) => Len(kaLog) < ticks
        /\ \A i \in 1..Len(kaLog) :
              kaLog[i].at - (IF i = 1 THEN 0 ELSE kaLog[i - 1].at) >= 4

C4_Witness ==
    /\ mode = "on"
    /\ refresh_rate = 2
    /\ allUnmatched
    /\ ticks = 5
    /\ Len(kaLog) = 2

\* C5: every keepalive write of the display loop on an unmatched tick is a
\* value-0 report, digits (0, 0, 0) in bytes 3..5, for unit c and for unit f.
C5_KeepaliveIsZero ==
    (lastTick = "keepalive" /\ opWrites # <<>>) =>
        \A k \in 3..5 : Byte(opWrites[1].report, k) = 0

\* C6: the display loop never ends because of a failed send, an empty or
\* failing sensor query, or any other non-interrupt exception inside one
\* iteration; only an explicit cancellation signal ends it.
C6_OnlyCancellationEndsLoop ==
    loopExit # "none" => (loopExit = "signal" /\ signalled)

InLoop == mode = "on" /\ pc \in {"tick", "sleep", "except_sleep"}

\* C7: when a cancellation signal arrives while the on command's loop runs, the
\* loop eventually ends, nothing is written to the device once the signal has
\* been observed, the handle is closed before the process ends, and the process
\* exits with status 0.
C7_Cancellation ==
    /\ (InLoop /\ sigPending) ~>
           (pc = "done" /\ loopExit = "signal" /\ exitStatus = 0
                /\ device = 0 /\ hidOpen = {})
    /\ [][(loopExit = "signal") => (opWrites' = opWrites)]_vars

C7_Witness ==
    /\ mode = "on"
    /\ pc = "done"
    /\ loopExit = "signal"
    /\ ticks >= 1
    /\ exitStatus = 0
    /\ hidOpen = {}

\* C8: for the on and off commands, when no device is found (the enumeration is
\* empty, so open() fails), the process ends with a non-zero exit status, and no
\* loop tick and no blank write is performed.
C8_NotFoundExitsNonZero ==
    (pc = "done" /\ enumerated = <<>> /\ ~signalled) =>
        /\ exitStatus # 0
        /\ ticks = 0
        /\ opWrites = <<>>

\* C9: after any sequence of open(), close(), send_temperature() and
\* blank_display() calls on one controller, open() while already open
\* included, at most one HID handle opened by the controller is open.
C9_AtMostOneHandle == Cardinality(hidOpen) <= 1

\* C10: every buffer written to the device by any operation (the probe of open,
\* send_temperature, the keepalive, blank_display) is exactly 64 bytes long,
\* starts with the report identifier 0x07, and has each of bytes 3, 4, 5 in 0..9.
C10_EveryReportWellFormed ==
    \A i \in 1..Len(opWrites) :
        LET report == opWrites[i].report
        IN  /\ Len(report) = 64
            /\ Byte(report, 0) = 7
            /\ \A k \in 3..5 : Byte(report, k) \in 0..9

C10_Witness ==
    /\ lastTick = "keepalive"
    /\ unit = "f"
    /\ Len(opWrites) = 1
    /\ Len(opWrites[1].report) = 64

\* The three fields of the controller.
Fields == <<device, interface_number, path>>

\* C11: close() is idempotent and safe on a closed instance: on a controller
\* with no open handle it changes nothing and raises nothing, and after any
\* close(), so also after close(); close(), device, interface_number and path
\* are all absent and the handle is released, also when the handle's own close
\* raises.
C11_CloseIdempotent ==
    [][(pc = "idle" /\ lastOp'.op = "close") =>
          /\ device' = 0
          /\ interface_number' = <<>>
          /\ path' = <<>>
          /\ \A h \in hidOpen' : h.hid # device
          /\ lastOp'.ret
          /\ exc' = "none"
          /\ pc' = "idle"
          /\ device = 0 => (hidOpen' = hidOpen /\ Fields' = Fields)]_vars

C11_Witness ==
    /\ lastOp.op = "close"
    /\ lastOp.msg = ""
    /\ device = 0
    /\ interface_number = <<>>
    /\ path = <<>>

\* C12: send_temperature and blank_display called with no open connection
\* return failure, write nothing to a device, raise nothing and leave device,
\* interface_number and path as they were.
C12_NotConnected ==
    [][(pc = "idle" /\ device = 0 /\ lastOp'.op \in {"send", "blank"}) =>
          /\ ~lastOp'.ret
          /\ lastOp'.msg = "not_connected"
          /\ opWrites' = <<>>
          /\ exc' = "none"
          /\ pc' = "idle"
          /\ Fields' = Fields
          /\ hidOpen' = hidOpen]_vars

C12_Witness ==
    /\ lastOp.op = "send"
    /\ lastOp.msg = "not_connected"
    /\ ~lastOp.ret
    /\ device = 0
    /\ opWrites = <<>>

\* The (interface_number, path) pair of an entry.
PairOf(d) == <<d.interface_number, d.path>>

\* Both fields of the pair are present.
Addressable(d) == d.interface_number # <<>> /\ d.path # <<>>

\* C13: for every enumeration list, _unique_devices returns exactly one entry
\* per distinct (interface_number, path) pair that occurs in the input with both
\* fields present, and no entry whose interface_number or path is missing;
\* entries that differ only in usage_page and usage collapse to one.
C13_UniqueDevices ==
    pc = "unique" =>
        /\ \A i \in 1..Len(selOut) : Addressable(selOut[i])
        /\ \A i \in 1..Len(selOut) :
              \E k \in 1..Len(enumerated) : selOut[i] = enumerated[k]
        /\ \A i, j \in 1..Len(selOut) :
              PairOf(selOut[i]) = PairOf(selOut[j]) => i = j
        /\ \A k \in 1..Len(enumerated) :
              Addressable(enumerated[k]) =>
                  \E i \in 1..Len(selOut) : PairOf(selOut[i]) = PairOf(enumerated[k])

C13_Witness ==
    /\ pc = "unique"
    /\ enumerated = <<DVendor, DNoPath, DVendorDup>>
    /\ Len(selOut) = 1

\* The place of the first entry of the enumeration with the pair of d.
FirstPlace(d) ==
    CHOOSE k \in 1..Len(enumerated) :
        /\ PairOf(enumerated[k]) = PairOf(d)
        /\ \A m \in 1..(k - 1) : PairOf(enumerated[m]) # PairOf(d)

\* C14: when several enumerated entries share one (interface_number, path),
\* the entry _unique_devices keeps, with its usage_page and usage, is the first
\* of them in enumeration order.
C14_KeepsFirstOccurrence ==
    pc = "unique" =>
        \A i \in 1..Len(selOut) : selOut[i] = enumerated[FirstPlace(selOut[i])]

\* C15: _sorted_candidates returns a permutation of its input in which every
\* candidate with usage_page >= 0xFF00 precedes every candidate with a lower or
\* absent usage_page, and among candidates of the same class a higher
\* interface_number precedes a lower one.
IsVendor(d) == d.usage_page # <<>> /\ d.usage_page[1] >= 65280

Occurrences(list, d) == Cardinality({k \in 1..Len(list) : list[k] = d})

C15_SortedCandidates ==
    pc = "sorted" =>
        /\ Len(selOut) = Len(enumerated)
        /\ \A d \in DevUniverse : Occurrences(selOut, d) = Occurrences(enumerated, d)
        /\ \A i, j \in 1..Len(selOut) :
              (IsVendor(selOut[i]) /\ ~IsVendor(selOut[j])) => i < j
        /\ \A i, j \in 1..Len(selOut) :
              ( /\ IsVendor(selOut[i]) = IsVendor(selOut[j])
                /\ selOut[i].interface_number # <<>>
                /\ selOut[j].interface_number # <<>>
                /\ selOut[i].interface_number[1] > selOut[j].interface_number[1] )
              => i < j

C15_Witness ==
    /\ pc = "sorted"
    /\ enumerated = <<DKbd, DVendor, DVendorHigh>>
    /\ selOut = <<DVendorHigh, DVendor, DKbd>>

\* C16: when there are zero candidates to try, open() fails at once, without
\* opening a handle or writing, with the "device not found" outcome and not the
\* "no working interface" one; both when the enumeration is empty and when
\* every enumerated entry is discarded by the deduplication.
C16_NoCandidatesIsNotFound ==
    (OpenReturned /\ candidates = <<>>) =>
        /\ ~lastOp.ret
        /\ lastOp.msg = "not_found"
        /\ opWrites = <<>>
        /\ attempts = <<>>
        /\ hidOpen = hidAtStart

\* C17: blank_display on an open connection writes exactly one report of 64
\* bytes whose only non-zero byte is byte 0, the report identifier 0x07 (bytes
\* 1..2 and 3..5 are zero), and returns success iff the write returned a count
\* greater than 0.
C17_BlankReport ==
    [][(pc = "idle" /\ device # 0 /\ lastOp'.op = "blank") =>
          /\ Len(opWrites') = 1
          /\ opWrites'[1].hid = device
          /\ Len(opWrites'[1].report) = 64
          /\ opWrites'[1].report[1] = 7
          /\ \A k \in 2..64 : opWrites'[1].report[k] = 0
          /\ lastOp'.ret <=> (~opWrites'[1].res.raised /\ opWrites'[1].res.n > 0)
          /\ exc' = "none"
          /\ pc' = "idle"]_vars

C17_Witness ==
    /\ lastOp.op = "blank"
    /\ device # 0
    /\ Len(opWrites) = 1
    /\ opWrites[1].res.n = 0
    /\ ~opWrites[1].res.raised
    /\ ~lastOp.ret

\* The candidates of 1..k whose open_path succeeds.
OpenedUpTo(k) == {i \in 1..k : oracle[i].opens}

\* C18: a successful open() binds the highest-ranked candidate whose open_path
\* succeeds and whose probe write of value 0 returns more than 0, and stops
\* there: no candidate ranked after it is opened or written to, and each
\* candidate ranked before it was attempted exactly once.
C18_BindsFirstValidating ==
    (OpenReturned /\ lastOp.ret) =>
        /\ attempts # <<>>
        /\ LET k == attempts[Len(attempts)]
           IN  /\ attempts = [i \in 1..k |-> i]
               /\ k <= Len(candidates)
               /\ Validates(k)
               /\ \A i \in 1..(k - 1) : ~Validates(i)
               /\ interface_number = candidates[k].interface_number
               /\ path = candidates[k].path
               /\ HandleOf(device).path = candidates[k].path[1]
               /\ Len(opWrites) = Cardinality(OpenedUpTo(k))
               /\ \A j \in 1..Len(opWrites) :
                     /\ \E i \in OpenedUpTo(k) : opWrites[j].path = candidates[i].path[1]
                     /\ Digits(opWrites[j].report) = 0
               /\ opWrites[Len(opWrites)].hid = device
               /\ \A h \in hidOpen \ hidAtStart : h.hid = device

C18_Witness ==
    /\ OpenReturned
    /\ lastOp.ret
    /\ Len(candidates) = 3
    /\ attempts = <<1, 2>>
    /\ ~oracle[1].opens
    /\ Validates(2)
    /\ Validates(3)
    /\ Len(opWrites) = 1

\* The three fields are all absent, or all set with the handle open on the path.
FieldsConsistent ==
    \/ device = 0 /\ interface_number = <<>> /\ path = <<>>
    \/ /\ device # 0
       /\ interface_number # <<>>
       /\ path # <<>>
       /\ \E h \in hidOpen : h.hid = device /\ h.path = path[1]

\* C20: in every reachable state of a controller the fields device,
\* interface_number and path are all set (a handle is open and the two fields
\* are those of the candidate that passed validation) or all absent; a failed
\* open(), send_temperature() or blank_display() never breaks this and never
\* changes the three fields.
C20_FieldsTogether ==
    /\ []FieldsConsistent
    /\ [][(lastOp'.op \in {"open", "send", "blank"} /\ ~lastOp'.ret) =>
             Fields' = Fields]_vars
    /\ [][(Fields' # Fields /\ lastOp'.op # "close") =>
             /\ lastOp'.op = "open"
             /\ lastOp'.ret
             /\ Validates(idx)
             /\ interface_number' = candidates[idx].interface_number
             /\ path' = candidates[idx].path]_vars

C20_Witness ==
    /\ lastOp.op = "send"
    /\ ~lastOp.ret
    /\ lastOp.msg # "not_connected"
    /\ device # 0
    /\ interface_number # <<>>
    /\ path # <<>>

\* A tick of the loop is taken in this step.
TickStep == pc = "tick" /\ ticks' = ticks + 1

\* C19: a tick in which a sensor matches makes exactly one write attempt and
\* leaves the keepalive timer unchanged; the timer is reset only by a keepalive
\* write, and it is reset whether or not that write succeeded; so the first
\* unmatched tick after at least KEEPALIVE_INTERVAL of matched ticks writes a
\* keepalive at once.
C19_MatchedTickKeepsTimer ==
    /\ [][(TickStep /\ lastTick' = "matched") =>
             /\ Len(opWrites') = 1
             /\ last_keepalive' = last_keepalive]_vars
    /\ [][(pc # "body" /\ last_keepalive' # last_keepalive) =>
             /\ TickStep
             /\ lastTick' = "keepalive"
             /\ Len(opWrites') = 1]_vars
    /\ [][(TickStep /\ lastTick' = "keepalive") =>
             /\ Len(opWrites') = 1
             /\ last_keepalive' = now]_vars
    /\ [][( /\ TickStep
            /\ lastTick' \in {"keepalive", "idle"}
            /\ matchedSince # <<>>
            /\ now - matchedSince[1] >= 4 ) =>
             /\ lastTick' = "keepalive"
             /\ Len(opWrites') = 1
             /\ kaLog' = Append(kaLog, [tick |-> ticks, at |-> now])]_vars

C19_Witness ==
    /\ lastTick = "keepalive"
    /\ ~lastOp.ret
    /\ ticks = 3
    /\ kaLog = <<[tick |-> 2, at |-> 4]>>
    /\ last_keepalive = 4
    /\ matchedSince = <<>>
    /\ ~allUnmatched

=============================================================================
